---- MODULE Spec2Model ----
\* Reminder store and submission pipeline of src/reminder-system.tsx:
\* the ReminderSystem component (collection, localStorage effects, add /
\* delete / toggle), the ReminderCard form (draft, validation, permission
\* request, handleSubmit) and the UpcomingReminders view filter.
EXTENDS Integers, Sequences, FiniteSets, TLC

\* ---------------------------------------------------------------- bounds

\* Last instant of the host clock the model explores (clock ticks).
MaxNow == 2
\* Clock ticks per minute of the datetime-local input.
TicksPerMinute == 2
\* Largest number of reminders the collection holds.
MaxReminders == 2
\* Largest number of permission requests awaiting the host's answer.
MaxPrompts == 1

\* ------------------------------------------------------------ vocabulary

\* Values of the task input: "", " " and " a" as character sequences.
Whitespace == {" "}
Tasks == {<<>>, <<" ">>, <<" ", "a">>}
\* Values of the datetime-local input: "" is <<>>, minute m is <<m>>.
EmptyTime == <<>>
Times == {EmptyTime, <<1>>, <<2>>}

Undefined == "undefined"
TaskMissing == "Please enter a task description"
TimeMissing == "Please select a time for your reminder"
TimePast == "Please select a future time"
NotificationsBlocked == "Notifications are blocked by your browser"
NotificationsNeeded == "Please allow notifications to receive reminders"
NoErrors == [task |-> Undefined, time |-> Undefined, notification |-> Undefined]

VARIABLES
    now,                    \* host clock, new Date().getTime() / Date.now()
    localStorage,           \* value under key "reminders"
    notificationSupported,  \* "Notification" in window
    hostPermission,         \* Notification.permission
    prompts,                \* Notification.requestPermission() calls not yet settled
    phase,                  \* position of the mount effects of the session
    queued,                 \* setReminders(...) queued by the load effect
    reminders,              \* ReminderSystem state
    task, time, notifications, isSubmitting, errors,
    notificationPermission, \* ReminderCard state
    previousSession         \* history: the collection held when the page was reloaded

formVars == <<task, time, notifications, isSubmitting, errors, notificationPermission>>
hostVars == <<notificationSupported, hostPermission>>
vars == <<now, localStorage, notificationSupported, hostPermission, prompts, phase,
          queued, reminders, task, time, notifications, isSubmitting, errors,
          notificationPermission, previousSession>>

\* ------------------------------------------------------- pure functions

\* new Date(time).getTime() of a non-empty datetime-local value.
GetTime(t) == t[1] * TicksPerMinute

\* String.prototype.trim
RECURSIVE TrimStart(_)
TrimStart(s) ==
    IF s # <<>> /\ Head(s) \in Whitespace THEN TrimStart(Tail(s)) ELSE s
RECURSIVE TrimEnd(_)
TrimEnd(s) ==
    IF s # <<>> /\ s[Len(s)] \in Whitespace THEN TrimEnd(SubSeq(s, 1, Len(s) - 1)) ELSE s
Trim(s) == TrimEnd(TrimStart(s))

\* Array.prototype.sort with the comparator of addReminder (stable).
RECURSIVE InsertByTimeBeforeEqual(_, _)
InsertByTimeBeforeEqual(sorted, r) ==
    IF sorted = <<>> THEN <<r>>
    ELSE IF GetTime(Head(sorted).time) - GetTime(r.time) >= 0
         THEN <<r>> \o sorted
         ELSE <<Head(sorted)>> \o InsertByTimeBeforeEqual(Tail(sorted), r)
RECURSIVE InsertByTime(_, _)
InsertByTime(sorted, r) ==
    IF sorted = <<>> THEN <<r>>
    ELSE IF GetTime(Head(sorted).time) - GetTime(r.time) > 0
         THEN <<r>> \o sorted
         ELSE <<Head(sorted)>> \o InsertByTime(Tail(sorted), r)
RECURSIVE SortByTime(_)
SortByTime(s) ==
    IF s = <<>> THEN <<>>
    ELSE InsertByTime(SortByTime(SubSeq(s, 1, Len(s) - 1)), s[Len(s)])

\* JSON.stringify of the collection: every field becomes text.
BoolText(b) == IF b THEN "true" ELSE "false"
StringifyReminder(r) ==
    <<r.id, r.task, r.time, BoolText(r.notifications), BoolText(r.completed)>>
JSONstringify(rs) ==
    [kind |-> "array", items |-> [i \in 1..Len(rs) |-> StringifyReminder(rs[i])]]

\* JSON.parse of one array element.
ParseReminderTruthy(o) ==
    [id |-> o[1], task |-> o[2], time |-> o[3],
     notifications |-> (o[4] # ""), completed |-> (o[5] # "")]
ParseReminder(o) ==
    [id |-> o[1], task |-> o[2], time |-> o[3],
     notifications |-> (o[4] = "true"), completed |-> (o[5] = "true")]
\* JSON.parse of a stored text: an array, a value that is no array, or a throw.
JSONparse(text) ==
    CASE text.kind = "array" ->
            [kind |-> "array", items |-> [i \in 1..Len(text.items) |-> ParseReminder(text.items[i])]]
      [] text.kind = "nonarray" -> [kind |-> "nonarray", items |-> <<>>]
      [] OTHER -> [kind |-> "throw", items |-> <<>>]

Absent == [kind |-> "absent", items |-> <<>>]
Garbage == [kind |-> "garbage", items |-> <<>>]
NonArray == [kind |-> "nonarray", items |-> <<>>]
NothingQueued == [kind |-> "none", items |-> <<>>]
Unknown == [known |-> FALSE, value |-> <<>>]

\* ------------------------------------------------------ ReminderSystem

addReminderUnsorted(prev, reminder) == Append(prev, reminder)
addReminderPruning(prev, reminder) ==
    SortByTime(Append(SelectSeq(prev, LAMBDA r : ~r.completed), reminder))
addReminder(prev, reminder) == SortByTime(Append(prev, reminder))

RECURSIVE deleteReminderFirstMatch(_, _)
deleteReminderFirstMatch(prev, id) ==
    IF prev = <<>> THEN <<>>
    ELSE IF Head(prev).id = id THEN Tail(prev)
         ELSE <<Head(prev)>> \o deleteReminderFirstMatch(Tail(prev), id)
deleteReminder(prev, id) == SelectSeq(prev, LAMBDA r : r.id # id)

toggleCompleteMarksDone(prev, id) ==
    [i \in 1..Len(prev) |->
        IF prev[i].id = id THEN [prev[i] EXCEPT !.completed = TRUE] ELSE prev[i]]
toggleCompleteEvery(prev, id) ==
    [i \in 1..Len(prev) |-> [prev[i] EXCEPT !.completed = ~prev[i].completed]]
toggleComplete(prev, id) ==
    [i \in 1..Len(prev) |->
        IF prev[i].id = id THEN [prev[i] EXCEPT !.completed = ~prev[i].completed]
        ELSE prev[i]]

\* The save effect: runs after every render in which reminders changed.
SaveEffectLastOnly(rs) ==
    JSONstringify(IF rs = <<>> THEN rs ELSE <<rs[Len(rs)]>>)
SaveEffect(rs) == JSONstringify(rs)

\* UpcomingReminders: the reminders shown.
activeRemindersNotPast(rs, currentTime) ==
    SelectSeq(rs, LAMBDA r : GetTime(r.time) >= currentTime \/ ~r.completed)
activeReminders(rs, currentTime) ==
    SelectSeq(rs, LAMBDA r : GetTime(r.time) > currentTime \/ ~r.completed)

\* -------------------------------------------------------- ReminderCard

validateFormLenient ==
    [task |-> IF Trim(task) = <<>> THEN TaskMissing ELSE Undefined,
     time |-> IF time = EmptyTime THEN TimeMissing
              ELSE IF GetTime(time) < now THEN TimePast ELSE Undefined,
     notification |-> IF notifications /\ notificationPermission = "denied"
                      THEN NotificationsBlocked ELSE Undefined]
validateForm ==
    [task |-> IF Trim(task) = <<>> THEN TaskMissing ELSE Undefined,
     time |-> IF time = EmptyTime THEN TimeMissing
              ELSE IF GetTime(time) <= now THEN TimePast ELSE Undefined,
     notification |-> IF notifications /\ notificationPermission = "denied"
                      THEN NotificationsBlocked ELSE Undefined]

\* const newReminder = { id: Date.now().toString(), ... completed: false }
newReminderFromState(c) ==
    [id |-> ToString(now), task |-> task, time |-> time,
     notifications |-> notifications, completed |-> FALSE]
newReminder(c) ==
    [id |-> ToString(now), task |-> c.task, time |-> c.time,
     notifications |-> c.notifications, completed |-> FALSE]

\* What a running handleSubmit keeps of the render it was created in.
Closure(kind) ==
    [kind |-> kind, task |-> task, time |-> time, notifications |-> notifications,
     notificationPermission |-> notificationPermission]
SwitchRequest ==
    [kind |-> "switch", task |-> <<>>, time |-> EmptyTime, notifications |-> FALSE,
     notificationPermission |-> "default"]

\* requestNotificationPermission: what the caller gets for the host's answer.
requestNotificationPermission(outcome) ==
    IF outcome \in {"throw", "unsupported"} THEN "denied" ELSE outcome

\* handleSubmit: if (permission !== "granted") ... return
PermissionNotDenied(permission) == permission # "denied"
PermissionGranted(permission) == permission = "granted"

\* showBrowserNotification: new Notification(...) is reached only where the
\* notificationPermission of the render the function belongs to is "granted".
showBrowserNotification(c) == c.notificationPermission = "granted"
\* handleSubmit after addReminder: if (notifications && notificationPermission
\* === "granted") showBrowserNotification(...), for the values c of the
\* render the handler was created in.
Alerted(c) ==
    /\ c.notifications /\ c.notificationPermission = "granted"
    /\ showBrowserNotification(c)

\* The submit Button is disabled while isSubmitting.
SubmitAlways == TRUE
SubmitEnabled == ~isSubmitting

\* handleSubmit, validation failed: setErrors(newErrors), setIsSubmitting(false).
SubmitInvalidStaysBusy ==
    /\ errors' = validateForm
    /\ isSubmitting' = TRUE
    /\ UNCHANGED <<task, time, notifications, reminders, localStorage>>
SubmitInvalid ==
    /\ errors' = validateForm
    /\ isSubmitting' = FALSE
    /\ UNCHANGED <<task, time, notifications, reminders, localStorage>>

\* handleSubmit, permission !== "granted": the notification error, then Idle.
PermissionRefused(prev) ==
    /\ errors' = [prev EXCEPT !.notification = NotificationsNeeded]
    /\ isSubmitting' = FALSE
    /\ UNCHANGED <<task, time, notifications, reminders, localStorage>>

\* handleSubmit, awaiting requestNotificationPermission().
SubmitAwaitPermission ==
    /\ Len(prompts) < MaxPrompts
    /\ Len(reminders) < MaxReminders
    /\ prompts' = Append(prompts, Closure("submit"))
    /\ errors' = validateForm
    /\ isSubmitting' = TRUE
    /\ UNCHANGED <<task, time, notifications, reminders, localStorage, notificationPermission>>

\* handleSubmit from "Create new reminder" to the end, for the values c of
\* the render the handler was created in; the save effect follows the render.
CreateReminderKeepsTime(c) ==
    /\ Len(reminders) < MaxReminders
    /\ reminders' = addReminder(reminders, newReminder(c))
    /\ localStorage' = SaveEffect(reminders')
    /\ task' = <<>>
    /\ errors' = NoErrors
    /\ isSubmitting' = FALSE
    /\ UNCHANGED <<time, notifications>>
CreateReminder(c) ==
    /\ Len(reminders) < MaxReminders
    /\ reminders' = addReminder(reminders, newReminder(c))
    /\ localStorage' = SaveEffect(reminders')
    /\ task' = <<>>
    /\ time' = EmptyTime
    /\ errors' = NoErrors
    /\ isSubmitting' = FALSE
    /\ UNCHANGED notifications

\* ---------------------------------------------------------------- actions

Init ==
    /\ now = 0
    /\ localStorage \in {Absent, Garbage, NonArray}
    /\ notificationSupported \in BOOLEAN
    /\ hostPermission \in (IF notificationSupported
                           THEN {"default", "granted", "denied"} ELSE {"default"})
    /\ prompts = <<>>
    /\ phase = "cardEffect"
    /\ queued = NothingQueued
    /\ reminders = <<>>
    /\ task = <<>>
    /\ time = EmptyTime
    /\ notifications = TRUE
    /\ isSubmitting = FALSE
    /\ errors = NoErrors
    /\ notificationPermission = "default"
    /\ previousSession = Unknown

\* The host clock advances.
Tick ==
    /\ now < MaxNow
    /\ now' = now + 1
    /\ UNCHANGED <<localStorage, hostVars, prompts, phase, queued, reminders, formVars,
                   previousSession>>

\* The page is loaded again: every useState starts from its initial value.
Reload ==
    /\ phase' = "cardEffect"
    /\ prompts' = <<>>
    /\ queued' = NothingQueued
    /\ reminders' = <<>>
    /\ task' = <<>>
    /\ time' = EmptyTime
    /\ notifications' = TRUE
    /\ isSubmitting' = FALSE
    /\ errors' = NoErrors
    /\ notificationPermission' = "default"
    /\ previousSession' = IF phase = "ready" THEN [known |-> TRUE, value |-> reminders]
                          ELSE Unknown
    /\ UNCHANGED <<now, localStorage, hostVars>>

\* ReminderCard mount effect: read Notification.permission.
CardMountEffect ==
    /\ phase = "cardEffect"
    /\ phase' = "loadEffect"
    /\ notificationPermission' =
          IF notificationSupported THEN hostPermission ELSE notificationPermission
    /\ UNCHANGED <<previousSession, now, localStorage, hostVars, prompts, queued, reminders,
                   task, time, notifications, isSubmitting, errors>>

\* ReminderSystem load effect: getItem, JSON.parse, setReminders.
LoadEffect ==
    /\ phase = "loadEffect"
    /\ phase' = "saveEffect"
    /\ queued' = IF localStorage.kind = "absent" THEN NothingQueued
                 ELSE IF JSONparse(localStorage).kind = "throw" THEN NothingQueued
                 ELSE JSONparse(localStorage)
    /\ UNCHANGED <<previousSession, now, localStorage, hostVars, prompts, reminders, formVars>>

\* ReminderSystem save effect of the first render, where reminders is [].
MountSaveEffect ==
    /\ phase = "saveEffect"
    /\ localStorage' = SaveEffect(reminders)
    /\ phase' = IF queued.kind = "none" THEN "ready" ELSE "commit"
    /\ previousSession' = IF queued.kind = "none" THEN Unknown ELSE previousSession
    /\ UNCHANGED <<now, hostVars, prompts, queued, reminders, formVars>>

\* The render with the loaded value, and its save effect; a value that is no
\* array makes UpcomingReminders throw on reminders.filter.
CommitLoaded ==
    /\ phase = "commit"
    /\ queued' = NothingQueued
    /\ previousSession' = Unknown
    /\ IF queued.kind = "array"
       THEN /\ reminders' = queued.items
            /\ localStorage' = SaveEffect(reminders')
            /\ phase' = "ready"
       ELSE /\ phase' = "crashed"
            /\ UNCHANGED <<reminders, localStorage>>
    /\ UNCHANGED <<now, hostVars, prompts, formVars>>

\* Task input onChange: the value typed differs from the one shown.
SetTask(v) ==
    /\ phase = "ready"
    /\ v # task
    /\ task' = v
    /\ errors' = IF errors.task # Undefined THEN [errors EXCEPT !.task = Undefined] ELSE errors
    /\ UNCHANGED <<previousSession, now, localStorage, hostVars, prompts, phase, queued, reminders,
                   time, notifications, isSubmitting, notificationPermission>>

\* Time input onChange: the value picked differs from the one shown.
SetTime(v) ==
    /\ phase = "ready"
    /\ v # time
    /\ time' = v
    /\ errors' = IF errors.time # Undefined THEN [errors EXCEPT !.time = Undefined] ELSE errors
    /\ UNCHANGED <<previousSession, now, localStorage, hostVars, prompts, phase, queued, reminders,
                   task, notifications, isSubmitting, notificationPermission>>

\* Switch onCheckedChange.
SetNotifications(checked) ==
    /\ phase = "ready"
    /\ checked = ~notifications
    /\ notifications' = checked
    /\ IF checked /\ notificationPermission # "granted" /\ notificationSupported
       THEN /\ Len(prompts) < MaxPrompts
            /\ prompts' = Append(prompts, SwitchRequest)
       ELSE UNCHANGED prompts
    /\ errors' = IF errors.notification # Undefined
                 THEN [errors EXCEPT !.notification = Undefined] ELSE errors
    /\ UNCHANGED <<previousSession, now, localStorage, hostVars, phase, queued, reminders,
                   task, time, isSubmitting, notificationPermission>>

\* Form onSubmit.
HandleSubmit ==
    /\ phase = "ready"
    /\ SubmitEnabled
    /\ IF validateForm # NoErrors
       THEN SubmitInvalid /\ UNCHANGED <<prompts, notificationPermission>>
       ELSE IF notifications /\ notificationPermission # "granted"
            THEN IF notificationSupported
                 THEN SubmitAwaitPermission
                 ELSE (IF ~PermissionGranted(requestNotificationPermission("unsupported"))
                       THEN PermissionRefused(validateForm)
                       ELSE CreateReminder(Closure("submit")))
                      /\ UNCHANGED <<prompts, notificationPermission>>
            ELSE CreateReminder(Closure("submit"))
                 /\ UNCHANGED <<prompts, notificationPermission>>
    /\ UNCHANGED <<previousSession, now, hostVars, phase, queued>>

\* Answers the host can give to a pending requestPermission().
HostOutcomes ==
    IF hostPermission = "default" THEN {"granted", "denied", "default", "throw"}
    ELSE {hostPermission, "throw"}

RemoveAt(s, i) == SubSeq(s, 1, i - 1) \o SubSeq(s, i + 1, Len(s))

\* A pending Notification.requestPermission() settles and its caller goes on.
ResolvePrompt(i, outcome) ==
    /\ phase = "ready"
    /\ i \in DOMAIN prompts
    /\ outcome \in HostOutcomes
    /\ hostPermission' = IF outcome \in {"granted", "denied"} THEN outcome ELSE hostPermission
    /\ prompts' = RemoveAt(prompts, i)
    /\ notificationPermission' =
          IF outcome = "throw" THEN notificationPermission ELSE outcome
    /\ IF prompts[i].kind = "switch"
       THEN UNCHANGED <<task, time, notifications, isSubmitting, errors, reminders, localStorage>>
       ELSE IF ~PermissionGranted(requestNotificationPermission(outcome))
            THEN PermissionRefused(errors)
            ELSE CreateReminder(prompts[i])
    /\ UNCHANGED <<previousSession, now, notificationSupported, phase, queued>>

\* Ids of the reminders UpcomingReminders renders, each with its buttons.
ShownIds == {r.id : r \in {activeReminders(reminders, now)[i] :
                              i \in DOMAIN activeReminders(reminders, now)}}

\* Delete button of a shown reminder.
DeleteReminder(id) ==
    /\ phase = "ready"
    /\ id \in ShownIds
    /\ reminders' = deleteReminder(reminders, id)
    /\ localStorage' = SaveEffect(reminders')
    /\ UNCHANGED <<previousSession, now, hostVars, prompts, phase, queued, formVars>>

\* Complete button of a shown reminder.
ToggleComplete(id) ==
    /\ phase = "ready"
    /\ id \in ShownIds
    /\ reminders' = toggleComplete(reminders, id)
    /\ localStorage' = SaveEffect(reminders')
    /\ UNCHANGED <<previousSession, now, hostVars, prompts, phase, queued, formVars>>

Ids == {ToString(n) : n \in 0..MaxNow}

Next ==
    \/ Tick
    \/ Reload
    \/ CardMountEffect
    \/ LoadEffect
    \/ MountSaveEffect
    \/ CommitLoaded
    \/ \E v \in Tasks : SetTask(v)
    \/ \E v \in Times : SetTime(v)
    \/ \E checked \in BOOLEAN : SetNotifications(checked)
    \/ HandleSubmit
    \/ \E i \in 1..MaxPrompts, outcome \in {"granted", "denied", "default", "throw"} :
          ResolvePrompt(i, outcome)
    \/ \E id \in Ids : DeleteReminder(id)
    \/ \E id \in Ids : ToggleComplete(id)

Spec == Init /\ [][Next]_vars

\* A requestPermission() made when the permission is already decided is
\* settled by the host itself, without the user, the oldest request first.
HostSettles ==
    hostPermission # "default" /\ ResolvePrompt(1, hostPermission)

\* What the scheduling guarantees: the mount effects run, and the host settles
\* the requests it can settle alone. The user owes the prompt no answer.
FairSpec ==
    /\ Spec
    /\ WF_vars(CardMountEffect)
    /\ WF_vars(LoadEffect)
    /\ WF_vars(MountSaveEffect)
    /\ WF_vars(CommitLoaded)
    /\ WF_vars(HostSettles)

\* ----------------------------------------------------------------- claims

SubmitsInFlight == {i \in DOMAIN prompts : prompts[i].kind = "submit"}
AllWhitespace(s) == \A i \in DOMAIN s : s[i] \in Whitespace
CountId(rs, id) == Cardinality({i \in DOMAIN rs : rs[i].id = id})
CountNotifying(rs) == Cardinality({i \in DOMAIN rs : rs[i].notifications})
DraftRejected ==
    \/ AllWhitespace(task)
    \/ time = EmptyTime
    \/ GetTime(time) <= now
    \/ notifications /\ notificationPermission = "denied"

\* C1: while a submission awaits the permission prompt the form is busy
\* (isSubmitting) and takes no further submit, so at no time are two
\* submissions of the form in flight.
C1_NoOverlappingSubmissions ==
    /\ Cardinality(SubmitsInFlight) <= 1
    /\ SubmitsInFlight # {} => isSubmitting /\ ~ENABLED HandleSubmit
\* A submission awaits the prompt while the draft on the form is still valid.
C1_Witness ==
    /\ SubmitsInFlight # {}
    /\ validateForm = NoErrors
    /\ Len(reminders) < MaxReminders

\* C2: no two reminders of the collection have the same id.
C2_UniqueIds ==
    \A i, j \in DOMAIN reminders : i # j => reminders[i].id # reminders[j].id

\* C3: the collection is in non-decreasing order of time in every state,
\* whatever sequence of load, add, delete and toggle produced it.
C3_SortedByTime ==
    \A i, j \in DOMAIN reminders :
        i < j => GetTime(reminders[i].time) <= GetTime(reminders[j].time)
\* The reminder due first was added last.
C3_Witness ==
    /\ Len(reminders) = 2
    /\ GetTime(reminders[1].time) < GetTime(reminders[2].time)
    /\ reminders[1].id = ToString(1)
    /\ reminders[2].id = ToString(0)

\* C4: within a session, a step that leaves fewer reminders with some id in
\* the collection is deleteReminder called with that id.
C4_OnlyDeleteRemoves ==
    [][phase = "ready" /\ phase' = "ready" /\ reminders' # reminders =>
        \A i \in DOMAIN reminders :
            CountId(reminders', reminders[i].id) < CountId(reminders, reminders[i].id)
                => DeleteReminder(reminders[i].id)]_vars
\* A completed reminder whose time has passed is still in the collection,
\* though the view no longer shows it.
C4_Witness ==
    /\ phase = "ready"
    /\ \E i \in DOMAIN reminders :
          reminders[i].completed /\ GetTime(reminders[i].time) <= now
    /\ Len(activeReminders(reminders, now)) < Len(reminders)

\* C5: a submit of a draft that breaks a rule ends Idle with the errors set,
\* and changes neither the collection, nor the stored value, nor the pending
\* permission requests.
C5_InvalidSubmitTouchesNothing ==
    [][DraftRejected /\ HandleSubmit =>
        /\ isSubmitting' = FALSE
        /\ errors' # NoErrors
        /\ (AllWhitespace(task) => errors'.task = TaskMissing)
        /\ reminders' = reminders
        /\ localStorage' = localStorage
        /\ prompts' = prompts]_vars
\* A whitespace-only task was submitted while the collection holds a reminder.
C5_Witness ==
    /\ errors.task = TaskMissing
    /\ task = <<" ">>
    /\ ~isSubmitting
    /\ reminders # <<>>

\* C6: the mapping of validateForm has a task error iff the trimmed task is
\* empty, a time error iff the time is missing or not after now, a
\* notification error iff notifications are wanted and permission is denied.
C6_ValidatorRules ==
    /\ validateForm.task # Undefined <=> AllWhitespace(task)
    /\ validateForm.time # Undefined <=> (time = EmptyTime \/ GetTime(time) <= now)
    /\ validateForm.time = TimeMissing <=> time = EmptyTime
    /\ validateForm.notification # Undefined
          <=> (notifications /\ notificationPermission = "denied")
    /\ validateForm = NoErrors <=> ~DraftRejected
\* A submit found all three errors at once, the time being equal to now.
C6_Witness ==
    /\ errors = validateForm
    /\ errors.task = TaskMissing
    /\ errors.time = TimePast
    /\ errors.notification = NotificationsBlocked
    /\ time # EmptyTime
    /\ GetTime(time) = now

\* C7: a submit with notifications wanted and permission denied, and a
\* permission request of a submission answered with anything but granted, set
\* the notification error, end Idle and leave the collection; a reminder with
\* notifications enters the collection only with permission granted.
C7_NoReminderWithoutPermission ==
    [][phase = "ready" /\ phase' = "ready" =>
        /\ notifications /\ notificationPermission = "denied" /\ HandleSubmit =>
              /\ errors'.notification = NotificationsBlocked
              /\ isSubmitting' = FALSE
              /\ reminders' = reminders /\ localStorage' = localStorage
        /\ notifications /\ ~DraftRejected /\ notificationPermission # "granted"
                /\ ~notificationSupported /\ HandleSubmit =>
              /\ errors'.notification = NotificationsNeeded
              /\ isSubmitting' = FALSE
              /\ reminders' = reminders /\ localStorage' = localStorage
        /\ \A i \in DOMAIN prompts :
            \A outcome \in {"denied", "default", "throw"} :
              prompts[i].kind = "submit" /\ ResolvePrompt(i, outcome) =>
                  /\ errors'.notification = NotificationsNeeded
                  /\ isSubmitting' = FALSE
                  /\ reminders' = reminders /\ localStorage' = localStorage
        /\ reminders' # reminders
                /\ CountNotifying(reminders') > CountNotifying(reminders) =>
              notificationPermission' = "granted"]_vars
\* The prompt of a submission was answered with a refusal: the form shows the
\* error next to the draft that had passed validation.
C7_Witness ==
    /\ phase = "ready"
    /\ errors.notification = NotificationsNeeded
    /\ notifications
    /\ ~isSubmitting
    /\ notificationSupported
    /\ hostPermission = "denied"
    /\ validateForm.task = Undefined /\ validateForm.time = Undefined
    /\ reminders = <<>>

\* C9: once a session is ready, the stored value is the serialization of the
\* whole collection, in order, after every add, delete and toggle.
C9_StoredIsWholeCollection ==
    phase = "ready" => localStorage = JSONstringify(reminders)
\* Two reminders are held, one of them completed.
C9_Witness ==
    /\ phase = "ready"
    /\ Len(reminders) = 2
    /\ reminders[1].completed
    /\ Len(localStorage.items) = 2

\* C10: a session that was ready is reloaded: the load effect finds an array,
\* and the render that follows holds the collection the session left, with
\* the same reminders, field values and order, and stores it again.
C10_RoundTrip ==
    [][previousSession.known =>
        /\ LoadEffect => queued' = [kind |-> "array", items |-> previousSession.value]
        /\ MountSaveEffect => phase' = "commit"
        /\ CommitLoaded =>
              /\ phase' = "ready"
              /\ reminders' = previousSession.value
              /\ localStorage' = JSONstringify(previousSession.value)]_vars
\* The load effect has parsed two reminders left by the session before, one
\* completed and one without notifications.
C10_Witness ==
    /\ phase = "commit"
    /\ previousSession.known
    /\ Len(previousSession.value) = 2
    /\ previousSession.value[1].completed
    /\ ~previousSession.value[2].completed
    /\ ~previousSession.value[1].notifications
    /\ queued.items = previousSession.value

\* C8: every submission that sets isSubmitting comes back to Idle.
C8_NeverHung == isSubmitting ~> ~isSubmitting

\* C11: a load that finds a malformed value (text that does not parse, or
\* text that parses to something that is no array) queues nothing, so the
\* collection stays empty, and no render of the session fails.
C11_MalformedLoadStartsEmpty ==
    [][/\ localStorage.kind \in {"garbage", "nonarray"} /\ LoadEffect
            => queued' = NothingQueued
       /\ phase' # "crashed"]_vars

\* The indices of the reminders that are in the future or not completed.
KeptIndices(rs, t) ==
    {i \in DOMAIN rs : ~(GetTime(rs[i].time) <= t /\ rs[i].completed)}
IdInstant(id) == CHOOSE n \in 0..MaxNow : ToString(n) = id
\* An id no reminder has.
AbsentId == "none"
\* C13: an add puts the new reminder behind every reminder of the same time
\* and keeps the others in their order, so of two reminders of equal time the
\* one added first stands first.
C13_StableTieBreak ==
    [][/\ phase = "ready" /\ Len(reminders') = Len(reminders) + 1 =>
            \E k \in DOMAIN reminders' :
                /\ RemoveAt(reminders', k) = reminders
                /\ reminders'[k].id = ToString(now)
                /\ \A i \in DOMAIN reminders' :
                      /\ i < k => GetTime(reminders'[i].time) <= GetTime(reminders'[k].time)
                      /\ i > k => GetTime(reminders'[i].time) > GetTime(reminders'[k].time)
       /\ \A i, j \in DOMAIN reminders' :
            i < j /\ reminders'[i].time = reminders'[j].time
                => IdInstant(reminders'[i].id) <= IdInstant(reminders'[j].id)]_vars
\* Two reminders of the same time, the first made at instant 0, the second at 1.
C13_Witness ==
    /\ Len(reminders) = 2
    /\ reminders[1].time = reminders[2].time
    /\ reminders[1].id = ToString(0)
    /\ reminders[2].id = ToString(1)

\* C14: for the collection held and every id, deleting twice gives what
\* deleting once gives, nothing with that id is left, the other reminders
\* stay in order, and an id no reminder has leaves the collection as it is.
C14_DeleteIdempotent ==
    \A id \in Ids \cup {AbsentId} :
        LET once == deleteReminder(reminders, id)
        IN  /\ deleteReminder(once, id) = once
            /\ CountId(once, id) = 0
            /\ Len(once) = Len(reminders) - CountId(reminders, id)
            /\ CountId(reminders, id) = 0 => once = reminders
\* Two reminders share an id and a third id is absent.
C14_Witness ==
    /\ phase = "ready"
    /\ Len(reminders) = 2
    /\ reminders[1].id = reminders[2].id
    /\ deleteReminder(reminders, reminders[1].id) = <<>>
    /\ deleteReminder(reminders, AbsentId) = reminders

\* C15: for the collection held and every id, toggling twice gives the
\* collection back, toggling once flips completed of the reminders with that
\* id, and an id no reminder has leaves the collection as it is.
C15_ToggleInvolution ==
    \A id \in Ids \cup {AbsentId} :
        LET once == toggleComplete(reminders, id)
        IN  /\ toggleComplete(once, id) = reminders
            /\ Len(once) = Len(reminders)
            /\ \A i \in DOMAIN reminders :
                  reminders[i].id = id => once[i].completed = ~reminders[i].completed
            /\ CountId(reminders, id) = 0 => once = reminders
\* A completed reminder and one that is not, with different ids.
C15_Witness ==
    /\ phase = "ready"
    /\ Len(reminders) = 2
    /\ reminders[1].id # reminders[2].id
    /\ reminders[1].completed
    /\ ~reminders[2].completed

\* C16: within a session, a step that keeps the number of reminders keeps
\* the id, task, time and notifications at every position; a toggle leaves
\* the reminders of another id as they are; a step that adds keeps the old
\* reminders as they are and in order; a step that removes keeps the others.
C16_OnlyCompletedChanges ==
    [][phase = "ready" /\ phase' = "ready" /\ reminders' # reminders =>
        /\ Len(reminders') = Len(reminders) =>
              \A i \in DOMAIN reminders :
                  reminders'[i] = [reminders[i] EXCEPT !.completed = reminders'[i].completed]
        /\ Len(reminders') > Len(reminders) =>
              \E k \in DOMAIN reminders' : RemoveAt(reminders', k) = reminders
        /\ Len(reminders') < Len(reminders) =>
              \E id \in Ids : reminders' = SelectSeq(reminders, LAMBDA r : r.id # id)
        /\ \A id \in Ids : ToggleComplete(id) =>
              /\ Len(reminders') = Len(reminders)
              /\ \A i \in DOMAIN reminders :
                    reminders[i].id # id => reminders'[i] = reminders[i]]_vars
\* Two reminders of different ids, the later one completed by a toggle.
C16_Witness ==
    /\ phase = "ready"
    /\ Len(reminders) = 2
    /\ reminders[1].id # reminders[2].id
    /\ ~reminders[1].completed
    /\ reminders[2].completed

\* C17: no reminder of the collection and no element of the stored array has
\* a task of whitespace only; a submission that waited for the prompt stores
\* the task it validated, whatever the task input shows when the answer comes.
C17_NoBlankTaskStored ==
    [][/\ \A i \in DOMAIN reminders' : ~AllWhitespace(reminders'[i].task)
       /\ localStorage'.kind = "array" =>
             \A i \in DOMAIN localStorage'.items : ~AllWhitespace(localStorage'.items[i][2])
       /\ \A i \in DOMAIN prompts :
             prompts[i].kind = "submit" /\ ResolvePrompt(i, "granted") =>
                 \E k \in DOMAIN reminders' :
                     /\ RemoveAt(reminders', k) = reminders
                     /\ reminders'[k].task = prompts[i].task]_vars
\* The task input was emptied to a blank while the submission awaits the
\* answer to the prompt.
C17_Witness ==
    /\ SubmitsInFlight # {}
    /\ task = <<" ">>
    /\ \A i \in SubmitsInFlight : ~AllWhitespace(prompts[i].task)
    /\ hostPermission = "default"
    /\ Len(reminders) < MaxReminders

\* The step adds exactly the reminder r to the collection.
AddsExactly(r) ==
    \E k \in DOMAIN reminders' : reminders'[k] = r /\ RemoveAt(reminders', k) = reminders
\* The step empties the task and time inputs, clears the errors, ends Idle
\* and leaves the notifications switch where it is.
TaskAndTimeReset ==
    /\ task' = <<>>
    /\ time' = EmptyTime
    /\ errors' = NoErrors
    /\ isSubmitting' = FALSE
    /\ notifications' = notifications
C19_NoRequestWhenDecided ==
    [][(notificationPermission = "granted" \/ notificationPermission = "denied") =>
        Len(prompts') <= Len(prompts)]_vars

\* C20: a submission that adds its reminder raises the browser notification
\* exactly when its draft has notifications on and the permission is granted
\* by then, be it granted before the submit or by the answer the submission
\* waited for.
C20_AlertOnEverySuccess ==
    [][phase = "ready" /\ phase' = "ready" /\ Len(reminders') > Len(reminders) =>
        /\ HandleSubmit =>
              (Alerted(Closure("submit"))
                  <=> notifications /\ notificationPermission' = "granted")
        /\ \A i \in DOMAIN prompts :
              prompts[i].kind = "submit" /\ ResolvePrompt(i, "granted") =>
                  (Alerted(prompts[i])
                      <=> prompts[i].notifications /\ notificationPermission' = "granted")]_vars

\* C21: every reminder of the collection has a time strictly later than the
\* instant it was created at (the instant its id is made of), however long
\* the submission waited between validation and creation.
C21_TimeAfterCreation ==
    \A i \in DOMAIN reminders :
        GetTime(reminders[i].time) > IdInstant(reminders[i].id)

\* C22: from the reload to the end of the load and save effects, every
\* reminder the session before left in storage is still in the stored value.
C22_StartupKeepsStored ==
    previousSession.known =>
        /\ localStorage.kind = "array"
        /\ \A i \in DOMAIN previousSession.value :
              \E j \in DOMAIN localStorage.items :
                  ParseReminder(localStorage.items[j]) = previousSession.value[i]

====
